---- MODULE Spec2Model ----
(***************************************************************************)
(* Windowed collection-and-persistence pipeline of Avg_Data.py:            *)
(* get_reddit_posts_for_date, save_posts_to_csv, load_posts_from_csv,      *)
(* analyze_daily_sentiment and main, run by one or two pipeline instances  *)
(* against one durable CSV file.                                           *)
(***************************************************************************)
EXTENDS Integers, Sequences, FiniteSets, TLC

\* ------------------------------------------------------------------ bounds
\* Calendar days of the collection scenarios are 0..MaxDay.
MaxDay == 3
\* Submissions one collection pulls from the feed, collection scenarios.
MaxSource == 4
\* Calendar days of the store scenarios are 0..MaxStoreDay.
MaxStoreDay == 1
\* Submissions one collection pulls from the feed, store scenarios.
MaxStoreSource == 3
\* batch_size ranges over 1..MaxBatch.
MaxBatch == 2
\* Submissions each of two concurrent instances pulls from the feed.
MaxConcSource == 1
\* Length of a calendar day in timestamp units.
DaySeconds == 2

Inst == {1, 2}

VARIABLES
    file,             \* reddit_posts.csv, shared by all instances
    file0,            \* the file as it was before the run
    persisted,        \* identities the file has held so far
    running,          \* the pipeline instances started
    feed,             \* submissions subreddit.new() may yield
    limit,            \* cap on the submissions one collection pulls
    start_date,
    end_date,
    batch_size,
    pc,               \* position of each instance in main
    seen,             \* submissions each instance has pulled and dated
    posts_data,
    stored_posts_df,
    posts_df,
    handed,           \* the frame main passed to analyze_daily_sentiment
    daily_sentiment,
    existing_data,    \* save_posts_to_csv: what line 114-116 found
    arg,              \* save_posts_to_csv: its posts_df argument
    ret,              \* save_posts_to_csv: where it returns to
    cause             \* what aborted the instance

vars == <<file, file0, persisted, running, feed, limit, start_date, end_date,
          batch_size, pc, seen, posts_data, stored_posts_df, posts_df, handed,
          daily_sentiment, existing_data, arg, ret, cause>>

\* ------------------------------------------------------------ cell values
\* A DataFrame cell: a str, a datetime.date, a float or NaN.
Str(s) == [tag |-> "str", s |-> s, n |-> 0]
NaN == [tag |-> "nan", s |-> "", n |-> 0]
DateObj(d) == [tag |-> "date", s |-> "", n |-> d]
Float(x) == [tag |-> "float", s |-> "", n |-> x]
\* The text to_csv writes for a date and for a float.
IsoText(d) == [tag |-> "str", s |-> "iso", n |-> d]
FloatText(x) == [tag |-> "str", s |-> "num", n |-> x]

RawColumns == {"Title", "Text", "Date"}
SentimentColumns == {"Sentiment_Title", "Sentiment_Text", "Overall_Sentiment"}
IdentityColumns == {"Title", "Text"}

\* [submission.title, submission.selftext, post_date]
Row(title, text, date) ==
    [c \in RawColumns |->
        IF c = "Title" THEN title ELSE IF c = "Text" THEN text ELSE date]

\* pd.DataFrame(posts_data, columns=['Title', 'Text', 'Date'])
DataFrame(data) == [columns |-> RawColumns, rows |-> data]

\* The element of s at each index of K, in index order.
RECURSIVE Pick(_, _, _)
Pick(s, K, k) ==
    IF k > Len(s) THEN <<>>
    ELSE (IF k \in K THEN <<s[k]>> ELSE <<>>) \o Pick(s, K, k + 1)

\* --------------------------------------------------------------- the file
Absent == [kind |-> "absent", columns |-> {}, rows |-> <<>>]
ZeroBytes == [kind |-> "zero", columns |-> {}, rows |-> <<>>]
Csv(columns, rows) == [kind |-> "csv", columns |-> columns, rows |-> rows]

\* A variant of Exists that never looks for the file.
ExistsUnchecked(f) == TRUE

\* os.path.exists(filename)
Exists(f) == f.kind # "absent"

\* to_csv writes NaN as the empty field, a date in ISO form, a float as digits.
FormatCell(v) ==
    IF v.tag = "nan" THEN Str("")
    ELSE IF v.tag = "date" THEN IsoText(v.n)
    ELSE IF v.tag = "float" THEN FloatText(v.n)
    ELSE v

\* read_csv reads the empty field as NaN and digits as a float; every other
\* field, an ISO date included, stays a str.
ParseCell(c) ==
    IF c = Str("") THEN NaN
    ELSE IF c.s = "num" THEN Float(c.n)
    ELSE c

\* posts_df.to_csv(filename, index=False)
to_csv(df) ==
    Csv(df.columns,
        [k \in 1..Len(df.rows) |-> [c \in df.columns |-> FormatCell(df.rows[k][c])]])

\* pd.read_csv raises EmptyDataError on a file with no header line and
\* FileNotFoundError on a missing one.
read_raises(f) == f.kind # "csv"

\* pd.read_csv(filename)
read_csv(f) ==
    [columns |-> f.columns,
     rows |-> [k \in 1..Len(f.rows) |-> [c \in f.columns |-> ParseCell(f.rows[k][c])]]]

\* pd.concat([a, b]): the rows of a then of b over the union of the columns,
\* NaN where a frame lacks a column.
concat(a, b) ==
    LET cols == a.columns \cup b.columns
        ext(r) == [c \in cols |-> IF c \in DOMAIN r THEN r[c] ELSE NaN]
        n == Len(a.rows)
    IN  [columns |-> cols,
         rows |-> [k \in 1..(n + Len(b.rows)) |->
                      IF k <= n THEN ext(a.rows[k]) ELSE ext(b.rows[k - n])]]

\* The key drop_duplicates compares; two NaN cells count as equal.
SubsetKey(r) == <<r["Title"], r["Text"]>>

\* df.drop_duplicates(subset=['Title', 'Text'], keep='last')
drop_duplicates(df) ==
    LET n == Len(df.rows)
        kept == {k \in 1..n :
                    \A j \in (k + 1)..n : SubsetKey(df.rows[j]) # SubsetKey(df.rows[k])}
    IN  [columns |-> df.columns, rows |-> Pick(df.rows, kept, 1)]

\* A variant of Merge that drops the existing rows.
MergeIncomingOnly(existing, incoming) == drop_duplicates(incoming)

\* pd.concat([existing, incoming]).drop_duplicates(subset=['Title','Text'], keep='last')
Merge(existing, incoming) == drop_duplicates(concat(existing, incoming))

\* -------------------------------------------------------------- sentiment
\* The compound score of the VADER oracle, in hundredths.
analyze_sentiment(text) ==
    IF text = "" THEN 0
    ELSE IF text = "t1" THEN 100
    ELSE IF text = "b1" THEN -100
    ELSE 50

\* polarity_scores iterates over its argument: a NaN cell (a float) raises.
sentiment_raises(df) ==
    \E k \in 1..Len(df.rows) : \E c \in IdentityColumns : df.rows[k][c].tag # "str"

\* Lines 95-99: the three columns analyze_daily_sentiment adds to posts_df.
add_sentiment(df) ==
    LET title(r) == analyze_sentiment(r["Title"].s)
        text(r) == analyze_sentiment(r["Text"].s)
        ext(r) == [c \in df.columns \cup SentimentColumns |->
                      IF c = "Sentiment_Title" THEN Float(title(r))
                      ELSE IF c = "Sentiment_Text" THEN Float(text(r))
                      ELSE IF c = "Overall_Sentiment" THEN Float((title(r) + text(r)) \div 2)
                      ELSE r[c]]
    IN  [columns |-> df.columns \cup SentimentColumns,
         rows |-> [k \in 1..Len(df.rows) |-> ext(df.rows[k])]]

RECURSIVE Gcd(_, _)
Gcd(a, b) == IF b = 0 THEN a ELSE Gcd(b, a % b)

Abs(x) == IF x < 0 THEN -x ELSE x

\* sum / count as a fraction in lowest terms.
Mean(sum, count) ==
    LET g == Gcd(Abs(sum), count)
    IN  <<sum \div g, count \div g>>

RECURSIVE SumOverall(_, _, _)
SumOverall(rows, date, k) ==
    IF k > Len(rows) THEN 0
    ELSE (IF rows[k]["Date"] = date THEN rows[k]["Overall_Sentiment"].n ELSE 0)
         + SumOverall(rows, date, k + 1)

\* Line 102: groupby('Date').agg({'Overall_Sentiment': 'mean'}); a NaN Date
\* forms no group, and a str Date and a datetime.date are different keys.
groupby_mean(df) ==
    LET dates == {df.rows[k]["Date"] : k \in 1..Len(df.rows)} \ {NaN}
        count(d) == Cardinality({k \in 1..Len(df.rows) : df.rows[k]["Date"] = d})
    IN  {[Date |-> d, Overall_Sentiment |-> Mean(SumOverall(df.rows, d, 1), count(d))] :
            d \in dates}

\* analyze_daily_sentiment(posts_df), for a frame it does not raise on.
analyze_daily_sentiment(df) == groupby_mean(add_sentiment(df))

\* -------------------------------------------------------------- collector
\* dt.datetime.fromtimestamp(submission.created_utc).date(), as a day number.
fromtimestamp_date(created_utc) == created_utc \div DaySeconds

\* A variant of IsOlder that stops one day late.
IsOlderByTwo(post_date) == post_date < start_date - 1

\* Line 45: post_date < start_date
IsOlder(post_date) == post_date < start_date

\* A variant of InWindow that excludes end_date.
InWindowExclusive(post_date) == start_date <= post_date /\ post_date < end_date

\* Line 47: start_date <= post_date <= end_date
InWindow(post_date) == start_date <= post_date /\ post_date <= end_date

\* A variant of BatchFull that flushes the first batch only.
BatchFullOnce(n) == n = batch_size

\* Line 51: len(posts_data) % batch_size == 0
BatchFull(n) == n % batch_size = 0

\* Line 48: the row appended for a submission.
RowOf(submission) ==
    Row(Str(submission.title), Str(submission.selftext),
        DateObj(fromtimestamp_date(submission.created_utc)))

EmptyFrame == DataFrame(<<>>)
NoRead == [present |-> FALSE, df |-> EmptyFrame]

\* The identities (Title, Text) of the rows of a file, as written.
CellOf(r, c) == IF c \in DOMAIN r THEN FormatCell(r[c]) ELSE Str("")
Identity(r) == <<CellOf(r, "Title"), CellOf(r, "Text")>>
Identities(rows) == {Identity(rows[k]) : k \in 1..Len(rows)}

\* ------------------------------------------------------------------ steps
Set(v, i, x) == [v EXCEPT ![i] = x]

\* save_posts_to_csv(df) called by instance i, returning to `to`.
CallSave(i, df, to) ==
    /\ arg' = Set(arg, i, df)
    /\ ret' = Set(ret, i, to)
    /\ pc' = Set(pc, i, "save_read")

\* An exception nobody catches ends the run.
Abort(i, why) ==
    /\ pc' = Set(pc, i, "aborted")
    /\ cause' = Set(cause, i, why)

\* main, line 164: stored_posts_df = load_posts_from_csv()
load_posts_from_csv(i) ==
    /\ pc[i] = "main"
    /\ IF ~Exists(file)
       THEN /\ stored_posts_df' = Set(stored_posts_df, i, EmptyFrame)
            /\ pc' = Set(pc, i, "loop")
            /\ UNCHANGED cause
       ELSE IF read_raises(file)
       THEN /\ Abort(i, "store")
            /\ UNCHANGED stored_posts_df
       ELSE /\ stored_posts_df' = Set(stored_posts_df, i, read_csv(file))
            /\ pc' = Set(pc, i, "loop")
            /\ UNCHANGED cause
    /\ UNCHANGED <<file, file0, persisted, running, feed, limit, start_date, end_date,
                   batch_size, seen, posts_data, posts_df, handed, daily_sentiment,
                   existing_data, arg, ret>>

\* Lines 43-59: one pass of the loop body over the next submission.
\* The pauses of lines 56 and 59 change no state.
next_submission(i) ==
    /\ pc[i] = "loop"
    /\ Len(seen[i]) < limit
    /\ \E submission \in feed :
         LET post_date == fromtimestamp_date(submission.created_utc)
             collected == Append(posts_data[i], RowOf(submission))
         IN  /\ seen' = Set(seen, i, Append(seen[i], submission))
             /\ IF IsOlder(post_date)
                THEN /\ pc' = Set(pc, i, "after_loop")
                     /\ UNCHANGED <<posts_data, arg, ret>>
                ELSE IF InWindow(post_date)
                THEN /\ posts_data' = Set(posts_data, i, collected)
                     /\ IF BatchFull(Len(collected))
                        THEN CallSave(i, DataFrame(collected), "loop")
                        ELSE UNCHANGED <<pc, arg, ret>>
                ELSE UNCHANGED <<pc, posts_data, arg, ret>>
    /\ UNCHANGED <<file, file0, persisted, running, feed, limit, start_date, end_date,
                   batch_size, stored_posts_df, posts_df, handed, daily_sentiment,
                   existing_data, cause>>

\* Line 43: subreddit.new() has no further submission.
source_exhausted(i) ==
    /\ pc[i] = "loop"
    /\ pc' = Set(pc, i, "after_loop")
    /\ UNCHANGED <<file, file0, persisted, running, feed, limit, start_date, end_date,
                   batch_size, seen, posts_data, stored_posts_df, posts_df, handed,
                   daily_sentiment, existing_data, arg, ret, cause>>

\* Line 43: the request for the next submission raises.
source_raises(i) ==
    /\ pc[i] = "loop"
    /\ Abort(i, "source")
    /\ UNCHANGED <<file, file0, persisted, running, feed, limit, start_date, end_date,
                   batch_size, seen, posts_data, stored_posts_df, posts_df, handed,
                   daily_sentiment, existing_data, arg, ret>>

\* Lines 61-63: save any remaining data.
save_remaining(i) ==
    /\ pc[i] = "after_loop"
    /\ IF posts_data[i] # <<>>
       THEN CallSave(i, DataFrame(posts_data[i]), "collected")
       ELSE /\ pc' = Set(pc, i, "collected")
            /\ UNCHANGED <<arg, ret>>
    /\ UNCHANGED <<file, file0, persisted, running, feed, limit, start_date, end_date,
                   batch_size, seen, posts_data, stored_posts_df, posts_df, handed,
                   daily_sentiment, existing_data, cause>>

\* Lines 65-66 and main, lines 167-171: combine new and existing posts.
combine(i) ==
    /\ pc[i] = "collected"
    /\ posts_df' = Set(posts_df, i,
                       IF posts_data[i] # <<>>
                       THEN Merge(stored_posts_df[i], DataFrame(posts_data[i]))
                       ELSE DataFrame(posts_data[i]))
    /\ pc' = Set(pc, i, "analyze")
    /\ UNCHANGED <<file, file0, persisted, running, feed, limit, start_date, end_date,
                   batch_size, seen, posts_data, stored_posts_df, handed,
                   daily_sentiment, existing_data, arg, ret, cause>>

\* main, lines 174-177: analyze_daily_sentiment(posts_df), which adds its columns
\* to posts_df itself, then save_posts_to_csv(posts_df).
analyze(i) ==
    /\ pc[i] = "analyze"
    /\ handed' = Set(handed, i, posts_df[i])
    /\ IF sentiment_raises(posts_df[i])
       THEN /\ Abort(i, "scorer")
            /\ UNCHANGED <<posts_df, daily_sentiment, arg, ret>>
       ELSE /\ posts_df' = Set(posts_df, i, add_sentiment(posts_df[i]))
            /\ daily_sentiment' = Set(daily_sentiment, i, analyze_daily_sentiment(posts_df[i]))
            /\ CallSave(i, add_sentiment(posts_df[i]), "done")
            /\ UNCHANGED cause
    /\ UNCHANGED <<file, file0, persisted, running, feed, limit, start_date, end_date,
                   batch_size, seen, posts_data, stored_posts_df, existing_data>>

\* save_posts_to_csv, lines 114-116: look for the file and read it.
save_read(i) ==
    /\ pc[i] = "save_read"
    /\ IF ~Exists(file)
       THEN /\ existing_data' = Set(existing_data, i, NoRead)
            /\ pc' = Set(pc, i, "save_write")
            /\ UNCHANGED cause
       ELSE IF read_raises(file)
       THEN /\ Abort(i, "store")
            /\ UNCHANGED existing_data
       ELSE /\ existing_data' = Set(existing_data, i, [present |-> TRUE, df |-> read_csv(file)])
            /\ pc' = Set(pc, i, "save_write")
            /\ UNCHANGED cause
    /\ UNCHANGED <<file, file0, persisted, running, feed, limit, start_date, end_date,
                   batch_size, seen, posts_data, stored_posts_df, posts_df, handed,
                   daily_sentiment, arg, ret>>

\* A variant of Written that overwrites the file with the new posts.
WrittenOverwrite(existing, df) == df

\* save_posts_to_csv, lines 117-118: what it writes.
Written(existing, df) ==
    IF existing.present THEN Merge(existing.df, df) ELSE df

\* save_posts_to_csv, lines 117-119: merge what was read and overwrite the file.
save_write(i) ==
    /\ pc[i] = "save_write"
    /\ file' = to_csv(Written(existing_data[i], arg[i]))
    /\ persisted' = persisted \cup Identities(file'.rows)
    /\ pc' = Set(pc, i, ret[i])
    /\ UNCHANGED <<file0, running, feed, limit, start_date, end_date, batch_size, seen,
                   posts_data, stored_posts_df, posts_df, handed, daily_sentiment,
                   existing_data, arg, ret, cause>>

Step(i) ==
    \/ load_posts_from_csv(i)
    \/ next_submission(i)
    \/ source_exhausted(i)
    \/ source_raises(i)
    \/ save_remaining(i)
    \/ combine(i)
    \/ analyze(i)
    \/ save_read(i)
    \/ save_write(i)

Next == \E i \in Inst : Step(i)

\* ------------------------------------------------------------ initial states
\* A timestamp within day d; the offset into the day varies with the day.
TimestampIn(d) == d * DaySeconds + (d % DaySeconds)

\* The submissions of the given titles, texts and days.
Submissions(titles, texts, days) ==
    {[title |-> t, selftext |-> x, created_utc |-> TimestampIn(d)] :
        t \in titles, x \in texts, d \in days}

\* Rows a well-formed file may hold before the run, all of day 0.
StoredA == Row(Str("t1"), Str(""), IsoText(0))
StoredB == Row(Str("t1"), Str("b1"), IsoText(0))
WellFormedFiles ==
    {Csv(RawColumns, rows) : rows \in {<<>>, <<StoredA>>, <<StoredB>>, <<StoredA, StoredB>>}}

\* A file without the Title and Text columns.
ForeignFile == Csv({"Id"}, <<[c \in {"Id"} |-> Str("x")]>>)

InitLocals ==
    /\ file0 = file
    /\ persisted = Identities(file.rows)
    /\ pc = [i \in Inst |-> IF i \in running THEN "main" ELSE "idle"]
    /\ seen = [i \in Inst |-> <<>>]
    /\ posts_data = [i \in Inst |-> <<>>]
    /\ stored_posts_df = [i \in Inst |-> EmptyFrame]
    /\ posts_df = [i \in Inst |-> EmptyFrame]
    /\ handed = [i \in Inst |-> EmptyFrame]
    /\ daily_sentiment = [i \in Inst |-> {}]
    /\ existing_data = [i \in Inst |-> NoRead]
    /\ arg = [i \in Inst |-> EmptyFrame]
    /\ ret = [i \in Inst |-> "main"]
    /\ cause = [i \in Inst |-> "none"]

\* One instance run as main runs it (the window ends today), from every state
\* of the durable file.
Init ==
    /\ running = {1}
    /\ file \in {Absent, ZeroBytes, ForeignFile} \cup WellFormedFiles
    /\ feed = Submissions({"t1"}, {"", "b1"}, 0..MaxStoreDay)
    /\ limit = MaxStoreSource
    /\ start_date \in 0..MaxStoreDay
    /\ end_date = MaxStoreDay
    /\ batch_size \in 1..MaxBatch
    /\ InitLocals

Spec == Init /\ [][Next]_vars

\* One instance, no file yet, a feed over every day and every window.
InitCollect ==
    /\ running = {1}
    /\ file = Absent
    /\ feed = Submissions({"t1"}, {"b1"}, 0..MaxDay)
    /\ limit = MaxSource
    /\ start_date \in 0..MaxDay
    /\ end_date \in start_date..MaxDay
    /\ batch_size \in 1..MaxBatch
    /\ InitLocals

SpecCollect == InitCollect /\ [][Next]_vars

\* One or two instances run against the same file.
InitConcurrent ==
    /\ running \in {{1}, {1, 2}}
    /\ file \in {Absent, Csv(RawColumns, <<StoredB>>)}
    /\ feed = Submissions({"t1", "t2"}, {"b1"}, {0})
    /\ limit = MaxConcSource
    /\ start_date = 0
    /\ end_date = 0
    /\ batch_size \in 1..MaxBatch
    /\ InitLocals

SpecConcurrent == InitConcurrent /\ [][Next]_vars

\* ------------------------------------------------------------------ claims
\* The calendar day of a submission.
PostDay(submission) == submission.created_utc \div DaySeconds
Days(submissions) == [k \in 1..Len(submissions) |-> PostDay(submissions[k])]
RowDays(rows) == [k \in 1..Len(rows) |-> rows[k]["Date"].n]

\* The pulled submissions up to, not including, the first one older than start_date.
BeforeFirstOlder(submissions) ==
    {k \in 1..Len(submissions) :
        \A j \in 1..k : PostDay(submissions[j]) >= start_date}

\* The rows the window keeps of the pulled submissions, in source order.
Selected(submissions) ==
    LET keep == {k \in BeforeFirstOlder(submissions) :
                    /\ start_date <= PostDay(submissions[k])
                    /\ PostDay(submissions[k]) <= end_date}
        picked == Pick(submissions, keep, 1)
    IN  [k \in 1..Len(picked) |->
            Row(Str(picked[k].title), Str(picked[k].selftext), DateObj(PostDay(picked[k])))]

\* The source is newest first.
NewestFirst(submissions) ==
    \A j, k \in 1..Len(submissions) :
        j < k => submissions[j].created_utc >= submissions[k].created_utc

NoDuplicateIdentity(rows) ==
    \A j, k \in 1..Len(rows) : j < k => Identity(rows[j]) # Identity(rows[k])

\* get_reddit_posts_for_date has returned to main.
Returned(i) ==
    \/ pc[i] \in {"collected", "analyze", "done"}
    \/ ret[i] = "done"
    \/ cause[i] = "scorer"

\* The last call of save_posts_to_csv has finished and merged into a file it read.
SavedOverExisting(i) ==
    /\ pc[i] \in {"loop", "after_loop", "collected", "analyze", "done"}
    /\ ret[i] # "main"
    /\ existing_data[i].present

\* C1: the collector's result is, in source order, exactly the submissions
\* dated within [start_date, end_date] that come before the first submission
\* dated earlier than start_date; newer ones are skipped without ending the
\* loop, and with start_date = end_date every returned date is that day.
C1_WindowFilter ==
    /\ posts_data[1] = Selected(seen[1])
    /\ start_date = end_date =>
         \A k \in 1..Len(posts_data[1]) : posts_data[1][k]["Date"] = DateObj(start_date)

\* C1 witness: a submission newer than the window precedes one inside it, and
\* a later one older than the window ended the collection.
C1_Witness ==
    /\ pc[1] = "collected"
    /\ Len(posts_data[1]) >= 1
    /\ \E j, k, m \in 1..Len(seen[1]) :
         /\ j < k /\ k < m
         /\ PostDay(seen[1][j]) > end_date
         /\ PostDay(seen[1][k]) >= start_date /\ PostDay(seen[1][k]) <= end_date
         /\ PostDay(seen[1][m]) < start_date

\* C2: no two rows of the durable file share the identity (Title, Text).
C2_NoDuplicateRows ==
    file.kind = "csv" => NoDuplicateIdentity(file.rows)

\* C3: merging one post p into a store without duplicate identities, where p
\* shares its identity with an entry q, keeps the size of the store, puts p
\* (with p's date) in place of q and leaves every other entry as it was, at
\* the merge of save_posts_to_csv and at the merge of main.
C3_SaveSite ==
    LET before == to_csv(existing_data[1].df)
        incoming == to_csv(arg[1])
        same == {k \in 1..Len(before.rows) :
                    Identity(before.rows[k]) = Identity(incoming.rows[1])}
    IN  ( /\ SavedOverExisting(1)
          /\ IdentityColumns \subseteq before.columns
          /\ NoDuplicateIdentity(before.rows)
          /\ Len(incoming.rows) = 1
          /\ same # {} )
        => /\ Len(file.rows) = Len(before.rows)
           /\ \E m \in 1..Len(file.rows) :
                \A c \in incoming.columns : file.rows[m][c] = incoming.rows[1][c]
           /\ \A k \in (1..Len(before.rows)) \ same :
                \E m \in 1..Len(file.rows) :
                   \A c \in before.columns : file.rows[m][c] = before.rows[k][c]

C3_MainSite ==
    LET before == to_csv(stored_posts_df[1])
        incoming == to_csv(DataFrame(posts_data[1]))
        after == to_csv(posts_df[1])
        same == {k \in 1..Len(before.rows) :
                    Identity(before.rows[k]) = Identity(incoming.rows[1])}
    IN  ( /\ pc[1] = "analyze"
          /\ IdentityColumns \subseteq before.columns
          /\ NoDuplicateIdentity(before.rows)
          /\ Len(incoming.rows) = 1
          /\ same # {} )
        => /\ Len(after.rows) = Len(before.rows)
           /\ \E m \in 1..Len(after.rows) :
                \A c \in incoming.columns : after.rows[m][c] = incoming.rows[1][c]
           /\ \A k \in (1..Len(before.rows)) \ same :
                \E m \in 1..Len(after.rows) :
                   \A c \in before.columns : after.rows[m][c] = before.rows[k][c]

\* C3: last write wins at both merge sites: the incoming post replaces the
\* stored entry of its identity, the store keeps its size and its other entries.
C3_LastWriteWins == C3_SaveSite /\ C3_MainSite

\* Collected posts whose identity the durable file does not hold.
Unflushed(i) ==
    {k \in 1..Len(posts_data[i]) :
        Identity(posts_data[i][k]) \notin Identities(file.rows)}

\* C4: wherever in the loop the source raises, the run is over and fewer than
\* batch_size of the posts collected so far are missing from the durable file;
\* once batch_size posts were collected the file holds the first batch.
C4_BoundedLoss ==
    (pc[1] = "loop" \/ cause[1] = "source") =>
        /\ Cardinality(Unflushed(1)) <= batch_size - 1
        /\ Len(posts_data[1]) >= batch_size =>
             \A k \in 1..batch_size : k \notin Unflushed(1)
        /\ cause[1] = "source" => pc[1] = "aborted" /\ ~ENABLED Next

\* C4 witness: the source raised after a full batch was flushed and one more
\* post, not yet flushed, was collected.
C4_Witness ==
    /\ cause[1] = "source"
    /\ batch_size = 2
    /\ Len(posts_data[1]) = 3
    /\ Unflushed(1) = {3}

\* C5: the frame main hands to analyze_daily_sentiment is the merge of the
\* loaded store with the collected posts, also when nothing was collected, so
\* the aggregate of an empty collection is the aggregate of the loaded store.
C5_AggregatesMergedStore ==
    (ret[1] = "done" /\ file0 \in WellFormedFiles) =>
        /\ handed[1] = Merge(stored_posts_df[1], DataFrame(posts_data[1]))
        /\ (posts_data[1] = <<>> /\ ~sentiment_raises(stored_posts_df[1])) =>
             daily_sentiment[1] = analyze_daily_sentiment(stored_posts_df[1])

\* C6: after a run of main the durable file holds no sentiment column.
C6_OnlyRawColumns ==
    pc[1] = "done" => file.columns \cap SentimentColumns = {}

\* C7 as stated: with a newest-first source the collector never pulls a
\* submission dated earlier than start_date.
C7_NeverInspectsOlder ==
    NewestFirst(seen[1]) =>
        \A k \in 1..Len(seen[1]) : PostDay(seen[1][k]) >= start_date

\* C7 amended: the collector pulls at most one submission dated earlier than
\* start_date, the one that ends the loop, and none after it; for days
\* [3,2,1,0] with the window [1,2] it returns the posts of days 2 and 1,
\* having pulled the post of day 0 last.
C7_StopsAtFirstOlder ==
    /\ \A k \in 1..(Len(seen[1]) - 1) : PostDay(seen[1][k]) >= start_date
    /\ pc[1] = "loop" =>
         \A k \in 1..Len(seen[1]) : PostDay(seen[1][k]) >= start_date
    /\ (Days(seen[1]) = <<3, 2, 1, 0>> /\ start_date = 1 /\ end_date = 2) =>
         /\ pc[1] # "loop"
         /\ RowDays(posts_data[1]) = <<2, 1>>

\* C7 witness: the days [3,2,1,0] were pulled with the window [1,2].
C7_Witness ==
    /\ Days(seen[1]) = <<3, 2, 1, 0>>
    /\ start_date = 1
    /\ end_date = 2
    /\ pc[1] = "collected"

\* C8 as stated: a missing or malformed file is an empty store and no error.
C8_MalformedIsEmptyStore ==
    file0.kind # "csv" \/ ~(IdentityColumns \subseteq file0.columns) =>
        /\ cause[1] # "store"
        /\ pc[1] # "main" => stored_posts_df[1] = EmptyFrame

\* C8 amended: a missing file is an empty store and no error; against a
\* missing or a well-formed file save_posts_to_csv completes and the file then
\* holds the incoming posts; a zero-byte file makes load raise and the file is
\* left as it was; a file without Title and Text is loaded with its rows.
C8_MissingIsEmptyStore ==
    /\ (file0 = Absent /\ pc[1] # "main") => stored_posts_df[1] = EmptyFrame
    /\ file0 # ZeroBytes => cause[1] # "store"
    /\ (pc[1] \in {"loop", "after_loop", "collected", "analyze", "done"} /\ ret[1] # "main") =>
         Identities(arg[1].rows) \subseteq Identities(file.rows)
    /\ file0 = ZeroBytes => pc[1] \in {"main", "aborted"} /\ file = file0
    /\ (file0 = ForeignFile /\ pc[1] # "main") => stored_posts_df[1].rows # <<>>

\* C8 witness: a run that started without a file has persisted collected posts.
C8_Witness ==
    /\ file0 = Absent
    /\ pc[1] = "done"
    /\ posts_data[1] # <<>>
    /\ Identities(posts_data[1]) \subseteq Identities(file.rows)

\* C9: once the collector has returned, the durable file holds the identity of
\* every returned post, and at no time has it lost an identity it held before.
C9_NothingLost ==
    /\ Returned(1) => Identities(posts_data[1]) \subseteq Identities(file.rows)
    /\ Identities(file0.rows) \subseteq Identities(file.rows)

\* C9 witness: the collector returned an exact multiple of batch_size posts
\* over a file that held an identity none of them has.
C9_Witness ==
    /\ pc[1] = "collected"
    /\ batch_size = 2
    /\ Len(posts_data[1]) = 2
    /\ Identities(file0.rows) \ Identities(posts_data[1]) # {}

\* C10: with a single instance every identity the file has held stays in it.
C10_SingleWriterKeepsAll ==
    running = {1} => persisted \subseteq Identities(file.rows)

\* C10 witness: two instances have finished and an identity one of them
\* wrote during the run is no longer in the file.
C10_LostUpdate ==
    /\ running = {1, 2}
    /\ \A i \in running : pc[i] = "done"
    /\ persisted \ (Identities(file.rows) \cup Identities(file0.rows)) # {}

====
